---------------------------- MODULE Spec2Model ----------------------------
(***************************************************************************)
(* TodoJo Pro (src/todojo.py): a Streamlit script over one SQLite table.   *)
(*                                                                         *)
(* The script is executed from top to bottom once per user interaction (a  *)
(* "run").  In one run at most one trigger widget (a button, a form submit *)
(* button) returns True, the one the user clicked; the other widgets       *)
(* return the value they hold.  Every action of Spec is one whole run of   *)
(* the script for one user interaction; a run that changes nothing, such   *)
(* as the one Export CSV starts, is there as SetFilter with the filters    *)
(* left as they are.  SpecUnit calls the three store helpers (add_task,    *)
(* update_task, delete_task) directly, with arguments drawn from small     *)
(* sets that include ids the table does not hold, and runs the script for  *)
(* the Export CSV button and the status checkboxes over the tables these   *)
(* calls produce.                                                          *)
(*                                                                         *)
(* Text is a sequence of one-character strings, a calendar date is a day   *)
(* number, and the ISO text of a date is its two decimal digits.           *)
(***************************************************************************)
EXTENDS Integers, Sequences, FiniteSets, TLC

VARIABLES
    table,      \* rows of the tasks table, in rowid order
    seq,        \* sqlite_sequence of the table: the largest id ever assigned
    now,        \* the wall clock, in days
    filt,       \* the values of the four sidebar filter widgets
    view,       \* ids of the rows the Task List tab rendered in the last run
    form,       \* id of the task whose edit form the last run rendered, 0 if none
    edit_id,    \* st.session_state["edit_id"] between runs, 0 when the key is absent
    upcoming,   \* the Upcoming Deadlines table the last run rendered
    message,    \* the last st.error / st.success text of the last run, <<>> if none
    raised,     \* the exception the last operation raised, "none" if it returned
    last,       \* history: the last operation, its inputs and the table before it
    everIds     \* history: every id the store has assigned so far

vars == <<table, seq, now, filt, view, form, edit_id, upcoming, message, raised,
          last, everIds>>

----------------------------------------------------------------------------
(* Bounds of the model *)

MaxTasks == 2       \* inserts performed in one behaviour
MaxNow == 1         \* days the clock advances

(* Program constants *)

Horizon == 7

Statuses == {"Pending", "In Progress", "Completed"}
Priorities == {"Low", "Medium", "High"}

----------------------------------------------------------------------------
(* Text and dates *)

Whitespace == {" "}

Lower(ch) == IF ch = "A" THEN "a" ELSE IF ch = "B" THEN "b" ELSE ch

RECURSIVE lstrip(_)
lstrip(s) == IF s # <<>> /\ Head(s) \in Whitespace THEN lstrip(Tail(s)) ELSE s

RECURSIVE rstrip(_)
rstrip(s) ==
    IF s # <<>> /\ s[Len(s)] \in Whitespace
    THEN rstrip(SubSeq(s, 1, Len(s) - 1))
    ELSE s

\* str.strip()
strip(s) == rstrip(lstrip(s))

\* date.isoformat(): the text stored in the due_date and created_at columns
isoformat(d) == <<d \div 10, d % 10>>

\* pd.to_datetime(...).dt.date / parse_dates: the date read back from the text
to_date(txt) == txt[1] * 10 + txt[2]

----------------------------------------------------------------------------
(* Task Store: the tasks table and the three helpers *)

Max(a, b) == IF a >= b THEN a ELSE b

RECURSIVE MaxId(_)
MaxId(tb) == IF tb = <<>> THEN 0 ELSE Max(Head(tb).id, MaxId(Tail(tb)))

Ids(tb) == {tb[i].id : i \in 1..Len(tb)}

\* a plain INTEGER PRIMARY KEY: one more than the largest id now in the table
NextRowidReusing(tb, sq) == MaxId(tb) + 1

\* id INTEGER PRIMARY KEY AUTOINCREMENT: one more than the largest id the
\* table has ever held, which SQLite keeps in sqlite_sequence
NextRowid(tb, sq) == Max(sq, MaxId(tb)) + 1

\* SELECT * FROM tasks, with due_date and created_at parsed back to dates
fetch_tasks(tb) ==
    [i \in 1..Len(tb) |->
        [tb[i] EXCEPT !.due_date = to_date(@), !.created_at = to_date(@)]]

\* INSERT INTO tasks (...) VALUES (...): the table and sqlite_sequence after it
add_task(tb, sq, title, desc, prio, due, tags, clock) ==
    LET rowid == NextRowid(tb, sq)
    IN  [table |-> Append(tb, [id          |-> rowid,
                               title       |-> title,
                               description |-> desc,
                               priority    |-> prio,
                               due_date    |-> isoformat(due),
                               tags        |-> tags,
                               status      |-> "Pending",
                               created_at  |-> isoformat(clock)]),
         seq   |-> rowid]

\* UPDATE tasks SET ... with the WHERE clause left out
update_task_all_rows(tb, id, kwargs) ==
    [i \in 1..Len(tb) |->
        [col \in DOMAIN tb[i] |->
            IF col \in DOMAIN kwargs THEN kwargs[col] ELSE tb[i][col]]]

\* UPDATE tasks SET col=?, ... WHERE id=?; no row matching is not an error
update_task(tb, id, kwargs) ==
    [i \in 1..Len(tb) |->
        IF tb[i].id = id
        THEN [col \in DOMAIN tb[i] |->
                 IF col \in DOMAIN kwargs THEN kwargs[col] ELSE tb[i][col]]
        ELSE tb[i]]

\* DELETE FROM tasks WHERE id<=?
delete_task_upto(tb, id) == SelectSeq(tb, LAMBDA r : r.id > id)

\* DELETE FROM tasks WHERE id=?; no row matching is not an error
delete_task(tb, id) == SelectSeq(tb, LAMBDA r : r.id # id)

----------------------------------------------------------------------------
(* Task List tab: the sidebar filters *)

\* re.search(pat, text, re.IGNORECASE) for a pattern of literal characters
\* and ".", which matches any one character
re_search(pat, text) ==
    \E i \in 0..(Len(text) - Len(pat)) :
        \A j \in 1..Len(pat) :
            pat[j] = "." \/ Lower(pat[j]) = Lower(text[i + j])

\* Series.str.contains(pat, case=False, na=False): regex=True is the default
str_contains(text, pat) == re_search(pat, text)

\* if due_f: ... a date_input left empty is None, a chosen date is truthy
DueGiven(f) == f.due_f # <<>>

\* if tag_f: ... an empty text_input is falsy
TagGiven(f) == f.tag_f # <<>>

\* the four successive df = df[...] selections
ApplyFilters(df, f) ==
    LET s1 == SelectSeq(df, LAMBDA r : r.status \in f.status_f)
        s2 == SelectSeq(s1, LAMBDA r : r.priority \in f.prio_f)
        s3 == IF DueGiven(f)
              THEN SelectSeq(s2, LAMBDA r : r.due_date <= f.due_f[1])
              ELSE s2
        s4 == IF TagGiven(f)
              THEN SelectSeq(s3, LAMBDA r : str_contains(r.tags, f.tag_f))
              ELSE s3
    IN  s4

----------------------------------------------------------------------------
(* Task List tab: the status checkbox *)

\* the status the checkbox maps to, with the unchecked box always Pending
new_status_pending(checked, status) ==
    IF checked THEN "Completed" ELSE "Pending"

\* the status the checkbox maps to, with a misspelt literal
new_status_done(checked, status) ==
    IF checked THEN "Done"
    ELSE IF status = "In Progress" THEN "In Progress" ELSE "Pending"

\* new_status = "Completed" if checked else ("In Progress" if ... else "Pending")
new_status(checked, status) ==
    IF checked THEN "Completed"
    ELSE IF status = "In Progress" THEN "In Progress" ELSE "Pending"

----------------------------------------------------------------------------
(* Analytics tab: Upcoming Deadlines *)

\* one row into a list sorted by due_date, after the rows it ties with
RECURSIVE Insert(_, _)
Insert(sorted, r) ==
    IF sorted = <<>> THEN <<r>>
    ELSE IF r.due_date < Head(sorted).due_date THEN <<r>> \o sorted
    ELSE <<Head(sorted)>> \o Insert(Tail(sorted), r)

\* DataFrame.sort_values("due_date")
RECURSIVE sort_values(_)
sort_values(rows) ==
    IF rows = <<>> THEN <<>>
    ELSE Insert(sort_values(SubSeq(rows, 1, Len(rows) - 1)), rows[Len(rows)])

\* the four columns st.table shows, with the DataFrame index of the row
Columns(df, i) ==
    [index    |-> i - 1,
     title    |-> df[i].title,
     due_date |-> df[i].due_date,
     priority |-> df[i].priority,
     status   |-> df[i].status]

RECURSIVE Pick(_, _)
Pick(S, n) == IF n = 0 THEN <<>> ELSE
    IF n \in S THEN Append(Pick(S, n - 1), n) ELSE Pick(S, n - 1)

\* the selection with < in place of <=
UpcomingStrict(df_all, today) ==
    LET keep == {i \in 1..Len(df_all) : df_all[i].due_date < today + Horizon}
        idx  == Pick(keep, Len(df_all))
    IN  sort_values([k \in 1..Len(idx) |-> Columns(df_all, idx[k])])

\* df_all[df_all.due_date <= date.today() + 7 days], the four columns, sorted
Upcoming(df_all, today) ==
    LET keep == {i \in 1..Len(df_all) : df_all[i].due_date <= today + Horizon}
        idx  == Pick(keep, Len(df_all))
    IN  sort_values([k \in 1..Len(idx) |-> Columns(df_all, idx[k])])

----------------------------------------------------------------------------
(* What the user types and picks *)

\* fills of add_form: Title, Description, Priority, Due date, Tags
AddForms ==
    { [title |-> <<" ", "a">>, description |-> <<>>, priority |-> "High",
       due_date |-> 0, tags |-> <<"A">>],
      [title |-> <<"b">>, description |-> <<"d", " ">>, priority |-> "Low",
       due_date |-> Horizon + 1, tags |-> <<>>],
      [title |-> <<>>, description |-> <<>>, priority |-> "High",
       due_date |-> 0, tags |-> <<"A">>],
      [title |-> <<" ">>, description |-> <<>>, priority |-> "High",
       due_date |-> 0, tags |-> <<"A">>] }

\* fills of edit_form
EditForms ==
    { [title |-> <<"b", " ">>, description |-> <<"d">>, priority |-> "Medium",
       due_date |-> 1, tags |-> <<"b">>, status |-> "In Progress"],
      [title |-> <<" ">>, description |-> <<>>, priority |-> "Low",
       due_date |-> 0, tags |-> <<>>, status |-> "Completed"] }

\* the sidebar as the first run leaves it: every status, every priority,
\* no date, no tag text
DefaultFilter ==
    [status_f |-> Statuses, prio_f |-> Priorities, due_f |-> <<>>, tag_f |-> <<>>]

\* settings of the four sidebar widgets
FilterSpecs ==
    { DefaultFilter,
      [DefaultFilter EXCEPT !.status_f = {"Completed"}, !.prio_f = {"High"}],
      [DefaultFilter EXCEPT !.status_f = {}],
      [DefaultFilter EXCEPT !.due_f = <<0>>, !.tag_f = <<"a">>],
      [DefaultFilter EXCEPT !.tag_f = <<".">>] }

NoFields == [title |-> <<>>]

----------------------------------------------------------------------------
(* One run of the script *)

\* the add form's check with the strip left out
TitleEmpty(title) == title = <<>>

\* if not title.strip():
TitleMissing(title) == strip(title) = <<>>

\* a button returns True in the run its click started, and only there
button(ev, kind, id) == ev.kind = kind /\ ev.id = id

\* the checkbox of a row returns what the user set it to, and otherwise the
\* value it was created with, row.status == "Completed"
checkbox(ev, row) ==
    IF ev.kind = "toggle" /\ ev.id = row.id
    THEN ev.checked
    ELSE row.status = "Completed"

\* with tabs[0]: the add form
AddTab(st, ev, clock) ==
    IF ev.kind # "add" THEN st
    ELSE IF TitleMissing(ev.fields.title)
    THEN [st EXCEPT !.message = "Title is required"]
    ELSE LET done == add_task(st.table, st.seq,
                              strip(ev.fields.title),
                              strip(ev.fields.description),
                              ev.fields.priority,
                              ev.fields.due_date,
                              strip(ev.fields.tags),
                              clock)
         IN  [st EXCEPT !.table = done.table, !.seq = done.seq,
                        !.message = "Task added!"]

\* for row in df.itertuples(): checkbox, Edit button, Delete button
RECURSIVE Loop(_, _, _)
Loop(rows, st, ev) ==
    IF rows = <<>> THEN st
    ELSE LET row == Head(rows)
             ns  == new_status(checkbox(ev, row), row.status)
             a   == IF ns # row.status
                    THEN [st EXCEPT
                            !.table = update_task(@, row.id, [status |-> ns]),
                            !.message = "Status updated!"]
                    ELSE st
             b   == IF button(ev, "edit", row.id)
                    THEN [a EXCEPT !.edit_id = row.id]
                    ELSE a
             c   == IF button(ev, "delete", row.id)
                    THEN [b EXCEPT !.table = delete_task(@, row.id),
                                   !.message = "Deleted!"]
                    ELSE b
         IN  Loop(Tail(rows), c, ev)

\* if "edit_id" in st.session_state: pop it, show the form, save on submit
EditForm(fdf, st, ev) ==
    IF st.edit_id = 0 THEN st
    ELSE LET eid   == st.edit_id
             shown == [st EXCEPT !.edit_id = 0, !.form = eid]
         IN  IF ev.kind = "save"
             THEN [shown EXCEPT
                     !.table = update_task(@, eid,
                         [title       |-> strip(ev.fields.title),
                          description |-> strip(ev.fields.description),
                          priority    |-> ev.fields.priority,
                          due_date    |-> isoformat(ev.fields.due_date),
                          tags        |-> strip(ev.fields.tags),
                          status      |-> ev.fields.status]),
                     !.message = "Updated!"]
             ELSE shown

\* with tabs[1]: filter the rows fetched at the top of the run, then the loop
\* and the edit form, both skipped when no row passes the filters
ListTab(fdf, st, ev) ==
    IF fdf = <<>> THEN st ELSE EditForm(fdf, Loop(fdf, st, ev), ev)

IdsOf(rows) == [i \in 1..Len(rows) |-> rows[i].id]

Range(s) == {s[i] : i \in 1..Len(s)}

\* the whole script, run for the interaction ev
Run(ev) ==
    \E fdf \in {ApplyFilters(fetch_tasks(table), ev.filt)} :
    \E st2 \in {ListTab(fdf,
                        AddTab([table |-> table, seq |-> seq, message |-> "",
                                edit_id |-> edit_id, form |-> 0], ev, now),
                        ev)} :
    \E hit \in {ev.id \in Range(IdsOf(fdf))} :
        /\ table' = st2.table
        /\ seq' = st2.seq
        /\ filt' = ev.filt
        /\ view' = IdsOf(fdf)
        /\ form' = st2.form
        /\ edit_id' = st2.edit_id
        /\ upcoming' = Upcoming(fetch_tasks(st2.table), now)
        /\ message' = st2.message
        /\ raised' = "none"
        /\ last' = [op |-> ev.kind, id |-> ev.id, checked |-> ev.checked,
                    fields |-> ev.fields, before |-> table, ids |-> everIds,
                    hit |-> hit, today |-> now]
        /\ everIds' = everIds \cup Ids(st2.table)
        /\ UNCHANGED now

Event(kind, id, checked, fields, f) ==
    [kind |-> kind, id |-> id, checked |-> checked, fields |-> fields, filt |-> f]

----------------------------------------------------------------------------
(* The user's interactions, each one run of the script *)

Init ==
    /\ table = <<>>
    /\ seq = 0
    /\ now = 0
    /\ filt = DefaultFilter
    /\ view = <<>>
    /\ form = 0
    /\ edit_id = 0
    /\ upcoming = <<>>
    /\ message = ""
    /\ raised = "none"
    /\ last = [op |-> "load", id |-> 0, checked |-> FALSE, fields |-> NoFields,
               before |-> <<>>, ids |-> {}, hit |-> FALSE, today |-> 0]
    /\ everIds = {}

\* Add Task is pressed on the add form
AddSubmit ==
    \E f \in AddForms :
        /\ TitleMissing(f.title) \/ seq < MaxTasks
        /\ Run(Event("add", 0, FALSE, f, filt))

\* a sidebar filter widget is changed (or the page is simply run again)
SetFilter ==
    \E f \in FilterSpecs :
        /\ f.status_f \subseteq Statuses
        /\ f.prio_f \subseteq Priorities
        /\ Run(Event("filter", 0, FALSE, NoFields, f))

\* Export CSV is pressed in the sidebar: the run only offers the download
ExportClick ==
    \E ev \in {Event("export", 0, FALSE, NoFields, filt)} : Run(ev)

\* the status checkbox of a listed row is clicked
ClickCheckbox ==
    \E id \in Range(view), checked \in BOOLEAN :
        Run(Event("toggle", id, checked, NoFields, filt))

\* the Edit button of a listed row is clicked
ClickEdit ==
    \E id \in Range(view) : Run(Event("edit", id, FALSE, NoFields, filt))

\* the Delete button of a listed row is clicked
ClickDelete ==
    \E id \in Range(view) : Run(Event("delete", id, FALSE, NoFields, filt))

\* Save Changes is pressed on the edit form the last run rendered
ClickSave ==
    /\ form # 0
    /\ \E e \in EditForms : Run(Event("save", form, FALSE, e, filt))

\* a day passes
Tick ==
    /\ now < MaxNow
    /\ now' = now + 1
    /\ UNCHANGED <<table, seq, filt, view, form, edit_id, upcoming, message,
                   raised, last, everIds>>

Next ==
    \/ AddSubmit
    \/ SetFilter
    \/ ClickCheckbox
    \/ ClickEdit
    \/ ClickDelete
    \/ ClickSave
    \/ Tick

Spec == Init /\ [][Next]_vars

----------------------------------------------------------------------------
(* The store helpers called directly *)

\* arguments of add_task
AddArgs ==
    { [title |-> <<"a">>, description |-> <<>>, priority |-> "High",
       due_date |-> 0, tags |-> <<"A">>],
      [title |-> <<"b">>, description |-> <<"d">>, priority |-> "Low",
       due_date |-> Horizon + 1, tags |-> <<>>] }

\* keyword arguments of update_task
UpdateKwargs ==
    { [status |-> "Completed"],
      [status |-> "In Progress"] }

\* ids passed to update_task and delete_task: assigned ones and one never assigned
CallIds == 1..(MaxTasks + 1)

Called(op, id, fields) ==
    [op |-> op, id |-> id, checked |-> FALSE, fields |-> fields,
     before |-> table, ids |-> everIds, hit |-> id \in Ids(table),
     today |-> now]

StoreAdd ==
    \E a \in AddArgs :
        /\ seq < MaxTasks
        /\ \E done \in {add_task(table, seq, a.title, a.description, a.priority,
                                 a.due_date, a.tags, now)} :
            /\ table' = done.table
            /\ seq' = done.seq
            /\ everIds' = everIds \cup Ids(done.table)
        /\ raised' = "none"
        /\ last' = Called("add_task", 0, a)
        /\ UNCHANGED <<now, filt, view, form, edit_id, upcoming, message>>

StoreUpdate ==
    \E id \in CallIds, kw \in UpdateKwargs :
        /\ table' = update_task(table, id, kw)
        /\ raised' = "none"
        /\ last' = Called("update_task", id, kw)
        /\ UNCHANGED <<seq, now, filt, view, form, edit_id, upcoming, message,
                       everIds>>

StoreDelete ==
    \E id \in CallIds :
        /\ table' = delete_task(table, id)
        /\ raised' = "none"
        /\ last' = Called("delete_task", id, NoFields)
        /\ UNCHANGED <<seq, now, filt, view, form, edit_id, upcoming, message,
                       everIds>>

NextUnit ==
    \/ StoreAdd
    \/ StoreUpdate
    \/ StoreDelete
    \/ ExportClick
    \/ ClickCheckbox

SpecUnit == Init /\ [][NextUnit]_vars

----------------------------------------------------------------------------
(* Properties *)

\* text that is empty or holds only whitespace
IsBlank(s) == \A i \in 1..Len(s) : s[i] = " "

\* text without its leading and trailing blanks
Trimmed(s) ==
    LET inked == {i \in 1..Len(s) : s[i] # " "}
    IN  IF inked = {} THEN <<>>
        ELSE SubSeq(s, CHOOSE i \in inked : \A k \in inked : i <= k,
                       CHOOSE i \in inked : \A k \in inked : i >= k)

\* the row with this id as fetch_tasks lists it
Listed(tb, id) ==
    LET df == fetch_tasks(tb)
    IN  df[CHOOSE i \in 1..Len(df) : df[i].id = id]

StatusIn(tb, id) == Listed(tb, id).status

\* sub occurs in text, letter case ignored
SubstringOf(sub, text) ==
    \E i \in 0..(Len(text) - Len(sub)) :
        \A j \in 1..Len(sub) : Lower(sub[j]) = Lower(text[i + j])

\* the row passes every filter dimension
Satisfies(r, f) ==
    /\ r.status \in f.status_f
    /\ r.priority \in f.prio_f
    /\ f.due_f = <<>> \/ r.due_date <= f.due_f[1]
    /\ f.tag_f = <<>> \/ SubstringOf(f.tag_f, r.tags)

ValidAdd == last.op = "add" /\ ~IsBlank(last.fields.title)

\* C1: an add attempt whose title is empty or only whitespace shows the
\* validation error and leaves the task table exactly as it was.
C1_BlankTitleRejected ==
    (last.op = "add" /\ IsBlank(last.fields.title))
        => (message = "Title is required" /\ table = last.before)

\* a whitespace-only title was submitted while the table held a task
C1_Witness ==
    /\ last.op = "add"
    /\ last.fields.title = <<" ">>
    /\ message = "Title is required"
    /\ table # <<>>

\* C2 as stated: after a valid add the list holds exactly one new row, with a
\* never-used id, status Pending and the title, description, priority, due
\* date and tags exactly as supplied; the earlier rows are unchanged.
C2_AddStoresSuppliedFields ==
    ValidAdd =>
        LET df  == fetch_tasks(table)
            new == df[Len(df)]
        IN  /\ df = Append(fetch_tasks(last.before), new)
            /\ new.id \notin last.ids
            /\ new.status = "Pending"
            /\ new.title = last.fields.title
            /\ new.description = last.fields.description
            /\ new.priority = last.fields.priority
            /\ new.due_date = last.fields.due_date
            /\ new.tags = last.fields.tags

\* C2 amended: after a valid add the list holds exactly one new row, with a
\* never-used id, status Pending, the supplied priority and due date, and the
\* supplied title, description and tags with their leading and trailing
\* whitespace removed; the earlier rows are unchanged.
C2_AddStoresTrimmedFields ==
    ValidAdd =>
        LET df  == fetch_tasks(table)
            new == df[Len(df)]
        IN  /\ df = Append(fetch_tasks(last.before), new)
            /\ new.id \notin last.ids
            /\ new.status = "Pending"
            /\ new.title = Trimmed(last.fields.title)
            /\ new.description = Trimmed(last.fields.description)
            /\ new.priority = last.fields.priority
            /\ new.due_date = last.fields.due_date
            /\ new.tags = Trimmed(last.fields.tags)

\* a valid add, with whitespace around the title, into a store from which
\* the task with the largest id had been deleted
C2_Witness ==
    /\ ValidAdd
    /\ last.fields.title # Trimmed(last.fields.title)
    /\ \E id \in last.ids : id \notin Ids(last.before) /\ id > MaxId(last.before)

\* C3: update_task called with an id the table does not hold fails with
\* NotFoundError and leaves the table unchanged.
C3_UpdateOfMissingIdFails ==
    (last.op = "update_task" /\ last.id \notin Ids(last.before))
        => (raised = "NotFoundError" /\ table = last.before)

\* C4: delete_task removes exactly the row with the id and keeps every other
\* row, in order and unchanged; with no such row it returns without raising
\* and the table is unchanged.
C4_DeleteRemovesOnlyThatRow ==
    last.op = "delete_task" =>
        LET keep == {i \in 1..Len(last.before) : last.before[i].id # last.id}
        IN  /\ raised = "none"
            /\ Len(table) = Cardinality(keep)
            /\ \A i \in keep :
                   table[Cardinality({k \in keep : k <= i})] = last.before[i]
            /\ last.id \notin Ids(last.before) => table = last.before

\* a second delete of an id that had been assigned and already deleted
C4_Witness ==
    /\ last.op = "delete_task"
    /\ last.id \in last.ids
    /\ last.id \notin Ids(last.before)
    /\ table # <<>>

\* C5: the rows the Task List shows are exactly the fetched rows, in order,
\* that have status in the status filter, priority in the priority filter,
\* due date not after the date filter when one is set, and tags containing
\* the tag text, letter case ignored, when one is set.
C5_ViewIsConjunctiveSubsequence ==
    view = IdsOf(SelectSeq(fetch_tasks(last.before),
                           LAMBDA r : Satisfies(r, filt)))

\* C6: a checkbox evaluated as ticked sets the row's status to Completed
\* whatever it was; evaluated as unticked it leaves In Progress as it is and
\* sets anything else to Pending; so ticking then unticking ends in Pending
\* from Pending and from In Progress alike.
C6_ToggleMapping ==
    /\ (last.op = "toggle" /\ last.hit) =>
           StatusIn(table, last.id) =
               IF last.checked THEN "Completed"
               ELSE IF StatusIn(last.before, last.id) = "In Progress"
                    THEN "In Progress" ELSE "Pending"
    /\ \A s \in {"Pending", "In Progress"} :
           new_status(FALSE, new_status(TRUE, s)) = "Pending"

\* the box of a Completed row was unticked and the row is Pending, next to
\* a row that is In Progress
C6_Witness ==
    /\ last.op = "toggle"
    /\ last.hit
    /\ ~last.checked
    /\ StatusIn(last.before, last.id) = "Completed"
    /\ StatusIn(table, last.id) = "Pending"
    /\ \E i \in 1..Len(table) : table[i].status = "In Progress"

\* C7: update_task(id, status="Completed") on an id the table holds lists
\* that row as Completed with every other column as before, and every other
\* row as before.
C7_CompleteChangesOnlyStatus ==
    (/\ last.op = "update_task"
     /\ last.fields = [status |-> "Completed"]
     /\ last.id \in Ids(last.before)) =>
        LET b == fetch_tasks(last.before)
            a == fetch_tasks(table)
        IN  /\ Len(a) = Len(b)
            /\ \A i \in 1..Len(b) :
                   a[i] = IF b[i].id = last.id
                          THEN [b[i] EXCEPT !.status = "Completed"]
                          ELSE b[i]

\* a row that was not Completed was set to Completed beside another row
C7_Witness ==
    /\ last.op = "update_task"
    /\ last.fields = [status |-> "Completed"]
    /\ last.id \in Ids(last.before)
    /\ StatusIn(last.before, last.id) # "Completed"
    /\ Len(table) = 2

\* C8: whatever the user does, every stored task has a non-empty title and
\* one of the three statuses, and a task keeps the created_at it has.
C8_StoredTasksStayValid ==
    /\ [](\A i \in 1..Len(table) :
              table[i].title # <<>> /\ table[i].status \in Statuses)
    /\ [][\A i \in 1..Len(table), j \in 1..Len(table') :
              table[i].id = table'[j].id
                  => table'[j].created_at = table[i].created_at]_vars

\* Save Changes was pressed with a blank title while the table held a
\* Completed task created on an earlier day
C8_Witness ==
    /\ last.op = "save"
    /\ IsBlank(last.fields.title)
    /\ \E i \in 1..Len(table) :
           table[i].status = "Completed" /\ to_date(table[i].created_at) < now

\* C9: after Edit on a listed task and then Save Changes on its form, the
\* task's row holds the submitted title, description, priority, due date,
\* tags and status.
C9_SaveStoresTheForm ==
    last.op = "save" =>
        /\ last.id \in Ids(table)
        /\ LET r == Listed(table, last.id)
           IN  /\ r.title = Trimmed(last.fields.title)
               /\ r.description = Trimmed(last.fields.description)
               /\ r.priority = last.fields.priority
               /\ r.due_date = last.fields.due_date
               /\ r.tags = Trimmed(last.fields.tags)
               /\ r.status = last.fields.status

\* C10: the Upcoming Deadlines table holds exactly the stored tasks due on or
\* before the day of the run plus 7 days, each once, overdue ones included,
\* in ascending order of due date.
C10_UpcomingWithinSevenDays ==
    LET df == fetch_tasks(table)
    IN  /\ {upcoming[k].index + 1 : k \in 1..Len(upcoming)}
               = {i \in 1..Len(df) : df[i].due_date <= last.today + 7}
        /\ Len(upcoming) =
               Cardinality({upcoming[k].index : k \in 1..Len(upcoming)})
        /\ \A k \in 1..Len(upcoming) :
               LET r == df[upcoming[k].index + 1]
               IN  /\ upcoming[k].title = r.title
                   /\ upcoming[k].due_date = r.due_date
                   /\ upcoming[k].priority = r.priority
                   /\ upcoming[k].status = r.status
        /\ \A k \in 1..(Len(upcoming) - 1) :
               upcoming[k].due_date <= upcoming[k + 1].due_date

\* an overdue task inserted second is shown first, before a task due on the
\* boundary day
C10_Witness ==
    /\ Len(upcoming) = 2
    /\ upcoming[1].index = 1
    /\ upcoming[1].due_date < last.today
    /\ upcoming[2].due_date = last.today + 7

=============================================================================
